---- MODULE Spec2Model ----
(***************************************************************************)
(* A state-machine model of the multi-agent backend: the AgentSystem       *)
(* registry (agent_system.rs), the Agent with its connection set and       *)
(* session map (agent.rs), the Session with its pending queue, log and     *)
(* task handle (session.rs), and the consumer task spawned by              *)
(* Agent::start_session.                                                   *)
(*                                                                         *)
(* An Agent value is a pair of shared cells (Arc<Mutex<..>>): its          *)
(* connection set and its session map.  The cells outlive the registry     *)
(* entry: remove_agent hands the Agent back to the caller and the          *)
(* consumer tasks keep their own Arc of the session map.  Agent values     *)
(* are therefore kept in the table objs under an agent id <<name, k>>      *)
(* (the k-th Agent built with that name); the registry maps a name to an   *)
(* agent id.  A consumer task is named <<agent id, session id, k>>: the    *)
(* k-th task spawned for that Agent value and session id.                  *)
(***************************************************************************)
EXTENDS Integers, Sequences, FiniteSets, TLC

VARIABLES
    objs,            \* every Agent value built so far: agent id -> Agent
    agents,          \* AgentSystem.agents: registered name -> agent id
    held,            \* Agent values returned by remove_agent, owned by the caller
    session_ids,     \* AgentSystem.session_ids
    active_session,  \* AgentSystem.active_session (None or a session id)
    tasks,           \* every consumer task spawned so far: task id -> task
    waiting,         \* the handles a pending wait_for_session_tasks awaits
    nsent            \* per Agent value, the number of messages enqueued to it

vars == <<objs, agents, held, session_ids, active_session, tasks, waiting,
          nsent>>

(***************************************************************************)
(* Input sets and bounds.                                                  *)
(***************************************************************************)
Names == {"A", "B", "C"}
SessionIds == {"s1", "s2"}
Contents == {"x", "y"}
Roles == {"r1", "r2"}
Response == "resp"
None == "none"

(***************************************************************************)
(* Generic helpers.                                                        *)
(***************************************************************************)
MapRemove(f, k) == [x \in DOMAIN f \ {k} |-> f[x]]
MapPut(f, k, v) == [x \in DOMAIN f \cup {k} |-> IF x = k THEN v ELSE f[x]]
EmptyMap == [x \in {} |-> None]
Perms(S) ==
    {p \in [1..Cardinality(S) -> S] : \A x \in S : \E i \in DOMAIN p : p[i] = x}
RECURSIVE SumOver(_, _)
SumOver(f, S) ==
    IF S = {} THEN 0
    ELSE LET x == CHOOSE y \in S : TRUE IN f[x] + SumOver(f, S \ {x})

(***************************************************************************)
(* message.rs                                                              *)
(***************************************************************************)
\* Message::new.  The field id is the value's identity (the n-th message
\* enqueued); the program's Message has no such field and never reads it.
Message_new(from, to, content, id) ==
    [from |-> from, to |-> to, content |-> content, id |-> id]

\* The absent message (Option::None of a pop on an empty queue, and of a
\* task with nothing in hand).
NoMessage == Message_new(None, None, None, 0)

(***************************************************************************)
(* session.rs                                                              *)
(***************************************************************************)
SessionEntry_with_response(message, response) ==
    [message |-> message, response |-> response]

\* Session::new: empty log, empty queue, no task handle (0).
Session_new ==
    [entries |-> << >>, message_stack |-> << >>, join_handle |-> 0]

add_message_with_response(session, message, response) ==
    [session EXCEPT !.entries =
        Append(@, SessionEntry_with_response(message, response))]

push_message_to_stack(session, message) ==
    [session EXCEPT !.message_stack = Append(@, message)]

\* pop_message_from_stack that takes the newest message (pop_back).
pop_message_from_stack_newest(session) ==
    IF session.message_stack = << >>
    THEN [some |-> FALSE, message |-> NoMessage,
          session |-> session]
    ELSE [some |-> TRUE,
          message |-> session.message_stack[Len(session.message_stack)],
          session |-> [session EXCEPT !.message_stack =
                          SubSeq(@, 1, Len(@) - 1)]]

\* pop_message_from_stack that reads the front and leaves it on the queue.
pop_message_from_stack_peeks(session) ==
    IF session.message_stack = << >>
    THEN [some |-> FALSE, message |-> NoMessage,
          session |-> session]
    ELSE [some |-> TRUE, message |-> Head(session.message_stack),
          session |-> session]

\* pop_front: whether a message was taken, the message, and the session left.
pop_message_from_stack(session) ==
    IF session.message_stack = << >>
    THEN [some |-> FALSE, message |-> NoMessage,
          session |-> session]
    ELSE [some |-> TRUE, message |-> Head(session.message_stack),
          session |-> [session EXCEPT !.message_stack = Tail(@)]]

set_join_handle(session, handle) == [session EXCEPT !.join_handle = handle]

take_join_handle(session) ==
    [handle |-> session.join_handle,
     session |-> [session EXCEPT !.join_handle = 0]]

(***************************************************************************)
(* agent.rs: the Agent value and its lock-scoped accessors.                *)
(***************************************************************************)
Agent_new(name, role) ==
    [name |-> name, role |-> role, connections |-> {}, sessions |-> EmptyMap]

\* connect_to that forgets to insert.
connect_to_forgets(agent, other) == agent

connect_to(agent, other) == [agent EXCEPT !.connections = @ \cup {other}]

disconnect_from(agent, other) == [agent EXCEPT !.connections = @ \ {other}]

\* is_connected_to that only asks whether the agent has any connection.
is_connected_to_anyone(agent, other) == agent.connections # {}

is_connected_to(agent, other) == other \in agent.connections

\* get_connections that lists every name it has heard of, itself included.
get_connections_with_self(agent) == agent.connections \cup {agent.name}

get_connections(agent) == agent.connections

has_session(agent, sid) == sid \in DOMAIN agent.sessions

\* Agent::send_message that pushes onto every queue the agent has.
Agent_send_message_every_session(agent, sid, message) ==
    IF has_session(agent, sid)
    THEN [ok |-> TRUE,
          agent |-> [agent EXCEPT !.sessions =
                        [s \in DOMAIN @ |->
                            push_message_to_stack(@[s], message)]]]
    ELSE [ok |-> FALSE, agent |-> agent]

\* Agent::send_message that creates the session it does not find.
Agent_send_message_creates(agent, sid, message) ==
    [ok |-> TRUE,
     agent |-> [agent EXCEPT !.sessions =
                  MapPut(@, sid,
                         push_message_to_stack(
                             IF has_session(agent, sid) THEN @[sid]
                             ELSE Session_new, message))]]

\* Agent::send_message: push onto the session's queue, or fail when the
\* agent has no such session.
Agent_send_message(agent, sid, message) ==
    IF has_session(agent, sid)
    THEN [ok |-> TRUE,
          agent |-> [agent EXCEPT !.sessions[sid] =
                        push_message_to_stack(@, message)]]
    ELSE [ok |-> FALSE, agent |-> agent]

\* Agent::create_session
Agent_create_session(agent, sid) ==
    IF has_session(agent, sid)
    THEN [ok |-> FALSE, agent |-> agent]
    ELSE [ok |-> TRUE,
          agent |-> [agent EXCEPT !.sessions = MapPut(@, sid, Session_new)]]

\* Agent::remove_session that leaves the map as it is.
Agent_remove_session_keeps(agent, sid) == agent

\* Agent::remove_session (the evicted Session is dropped by every caller)
Agent_remove_session(agent, sid) ==
    [agent EXCEPT !.sessions = MapRemove(@, sid)]

\* Agent::set_session_join_handle
set_session_join_handle(agent, sid, handle) ==
    IF has_session(agent, sid)
    THEN [agent EXCEPT !.sessions[sid] = set_join_handle(@, handle)]
    ELSE agent

\* Agent::take_session_join_handle, called by wait_for_session_tasks: the
\* handle stored on the agent's session (0 when the agent has no such
\* session or the handle was taken), and the agent without it.
take_session_join_handle(agent, sid) ==
    IF has_session(agent, sid)
    THEN [handle |-> take_join_handle(agent.sessions[sid]).handle,
          agent |-> [agent EXCEPT !.sessions[sid] =
                        take_join_handle(@).session]]
    ELSE [handle |-> 0, agent |-> agent]

(***************************************************************************)
(* agent.rs: Agent::start_session, the consumer task.  A task is Polling   *)
(* (about to lock the session map and look at its queue, or asleep before  *)
(* doing so), Processing (awaiting the model call for the message it       *)
(* dequeued) or Stopped.  taken_from is history: the join handle of the    *)
(* session the message in hand was popped from, which tells one session    *)
(* stored under an id from a later one stored under the same id.  holds is *)
(* the set of mutexes whose guard is alive in the task's frame; Poll and   *)
(* CallOk take a whole critical section as one step, so they leave it      *)
(* empty, and the steps further down take a section lock by lock.          *)
(***************************************************************************)
Task_new ==
    [pc |-> "Polling", message |-> NoMessage, taken_from |-> 0, holds |-> {}]

\* The id of the next task spawned for Agent value o and session sid.
NextTaskId(tks, o, sid) ==
    <<o, sid, 1 + Cardinality({t \in DOMAIN tks : t[1] = o /\ t[2] = sid})>>

\* tokio::spawn of the consumer loop: the task table with the new task.
start_session(tks, o, sid) == MapPut(tks, NextTaskId(tks, o, sid), Task_new)

(***************************************************************************)
(* agent_system.rs.  Every method of AgentSystem is an operator from the   *)
(* current state and the arguments to a record holding what the call       *)
(* returns (res: "Ok" or the error; out: the value returned with Ok) and   *)
(* the fields it leaves behind, followed by the action that takes the      *)
(* call as a step.                                                         *)
(***************************************************************************)
Registered == DOMAIN agents
IsRegisteredObj(o) == \E n \in Registered : agents[n] = o
get_agent(name) == objs[agents[name]]
\* get_active_session that falls back to a default session id.
get_active_session_default ==
    IF active_session = None THEN "s1" ELSE active_session

get_active_session == active_session
\* wait_for_session_tasks borrows the system mutably until it returns: no
\* other registry call runs while it waits.
Idle == waiting = {}
TotalSent(counts) == SumOver(counts, DOMAIN counts)

\* AgentSystem::new
Init ==
    /\ objs = EmptyMap
    /\ agents = EmptyMap
    /\ held = {}
    /\ session_ids = {}
    /\ active_session = None
    /\ tasks = EmptyMap
    /\ waiting = {}
    /\ nsent = EmptyMap

(***************************************************************************)
(* AgentSystem::add_agent.  The argument is a fresh Agent (Agent::new) or  *)
(* an Agent the caller got back from remove_agent.  On a name collision    *)
(* the argument is dropped.                                                *)
(***************************************************************************)
\* add_agent that inserts over an entry of the same name.
add_agent_overwrites(o, name) ==
    [res |-> IF name \in Registered THEN "Exists" ELSE "Ok",
     agents |-> MapPut(agents, name, o)]

add_agent(o, name) ==
    IF name \in Registered
    THEN [res |-> "Exists", agents |-> agents]
    ELSE [res |-> "Ok", agents |-> MapPut(agents, name, o)]

NewAgentId(name) ==
    <<name, 1 + Cardinality({o \in DOMAIN objs : o[1] = name})>>

AddAgentFresh(name, role) ==
    /\ Idle
    /\ objs' = MapPut(objs, NewAgentId(name), Agent_new(name, role))
    /\ nsent' = MapPut(nsent, NewAgentId(name), 0)
    /\ agents' = add_agent(NewAgentId(name), name).agents
    /\ UNCHANGED <<held, session_ids, active_session, tasks, waiting>>

AddAgentHeld(o) ==
    /\ Idle
    /\ o \in held
    /\ agents' = add_agent(o, objs[o].name).agents
    /\ held' = held \ {o}
    /\ UNCHANGED <<objs, session_ids, active_session, tasks, waiting, nsent>>

(***************************************************************************)
(* AgentSystem::remove_agent and remove_connections                        *)
(***************************************************************************)
\* remove_connections that sweeps nothing.
remove_connections_skipped(agent_name) == objs

\* The table of Agent values after the sweep: every registered agent other
\* than agent_name forgets agent_name.
remove_connections(agent_name) ==
    [o \in DOMAIN objs |->
        IF IsRegisteredObj(o) /\ objs[o].name # agent_name
        THEN disconnect_from(objs[o], agent_name)
        ELSE objs[o]]

\* out is the Agent value handed back to the caller.
remove_agent(name) ==
    IF name \notin Registered
    THEN [res |-> "NotFound", out |-> None, objs |-> objs, agents |-> agents]
    ELSE [res |-> "Ok", out |-> agents[name],
          objs |-> remove_connections(name),
          agents |-> MapRemove(agents, name)]

RemoveAgent(name) ==
    /\ Idle
    /\ LET r == remove_agent(name)
       IN  /\ objs' = r.objs
           /\ agents' = r.agents
           /\ held' = IF r.res = "Ok" THEN held \cup {r.out} ELSE held
    /\ UNCHANGED <<session_ids, active_session, tasks, waiting, nsent>>

(***************************************************************************)
(* AgentSystem::connect_agents / disconnect_agents                         *)
(***************************************************************************)
\* if let Some(agent) = self.agents.get(name) { agent.connect_to(other) }
connect_if_registered(table, name, other) ==
    IF name \in Registered
    THEN [table EXCEPT ![agents[name]] = connect_to(@, other)]
    ELSE table

\* if let Some(agent) = self.agents.get(name) { agent.disconnect_from(other) }
disconnect_if_registered(table, name, other) ==
    IF name \in Registered
    THEN [table EXCEPT ![agents[name]] = disconnect_from(@, other)]
    ELSE table

connect_agents(agent1_name, agent2_name) ==
    IF agent1_name \notin Registered \/ agent2_name \notin Registered
    THEN [res |-> "NotFound", objs |-> objs]
    ELSE [res |-> "Ok",
          objs |-> connect_if_registered(
                       connect_if_registered(objs, agent1_name, agent2_name),
                       agent2_name, agent1_name)]

disconnect_agents(agent1_name, agent2_name) ==
    [res |-> "Ok",
     objs |-> disconnect_if_registered(
                  disconnect_if_registered(objs, agent1_name, agent2_name),
                  agent2_name, agent1_name)]

ConnectAgents(agent1_name, agent2_name) ==
    /\ Idle
    /\ objs' = connect_agents(agent1_name, agent2_name).objs
    /\ UNCHANGED <<agents, held, session_ids, active_session, tasks, waiting,
                   nsent>>

DisconnectAgents(agent1_name, agent2_name) ==
    /\ Idle
    /\ objs' = disconnect_agents(agent1_name, agent2_name).objs
    /\ UNCHANGED <<agents, held, session_ids, active_session, tasks, waiting,
                   nsent>>

(***************************************************************************)
(* AgentSystem::send_message                                               *)
(***************************************************************************)
SendFailed(res) == [res |-> res, out |-> None, objs |-> objs, nsent |-> nsent]

send_message(from, to, content) ==
    IF from \notin Registered \/ to \notin Registered
    THEN SendFailed("NotFound")
    ELSE IF ~is_connected_to(get_agent(from), to)
    THEN SendFailed("NotConnected")
    ELSE IF get_active_session = None
    THEN SendFailed("NoActiveSession")
    ELSE LET o == agents[to]
             message == Message_new(from, to, content, nsent[o] + 1)
             r == Agent_send_message(objs[o], get_active_session, message)
         IN  IF ~r.ok
             THEN SendFailed("SessionNotFound")
             ELSE [res |-> "Ok", out |-> message,
                   objs |-> [objs EXCEPT ![o] = r.agent],
                   nsent |-> [nsent EXCEPT ![o] = @ + 1]]

SendMessage(from, to, content) ==
    /\ Idle
    /\ LET r == send_message(from, to, content)
       IN  /\ objs' = r.objs
           /\ nsent' = r.nsent
    /\ UNCHANGED <<agents, held, session_ids, active_session, tasks, waiting>>

(***************************************************************************)
(* AgentSystem::send_broadcast.  The loop visits the sender's connections  *)
(* in the order the HashSet yields them, which is any order: `order`.      *)
(***************************************************************************)
RECURSIVE broadcast_loop(_, _, _, _, _, _)
broadcast_loop(order, from, content, table, counts, sent) ==
    IF order = << >>
    THEN [res |-> "Ok", out |-> sent, objs |-> table, nsent |-> counts]
    ELSE LET recipient_name == Head(order)
         IN  IF recipient_name \in Registered /\ get_active_session # None
             THEN LET o == agents[recipient_name]
                      message == Message_new(from, recipient_name, content,
                                             counts[o] + 1)
                      r == Agent_send_message(table[o], get_active_session,
                                              message)
                  IN  IF r.ok
                      THEN broadcast_loop(Tail(order), from, content,
                               [table EXCEPT ![o] = r.agent],
                               [counts EXCEPT ![o] = @ + 1],
                               Append(sent, message))
                      ELSE broadcast_loop(Tail(order), from, content, table,
                                          counts, sent)
             ELSE broadcast_loop(Tail(order), from, content, table, counts,
                                 sent)

\* The orders in which the loop may visit the sender's connections.
BroadcastOrders(from) ==
    IF from \in Registered THEN Perms(get_connections(get_agent(from)))
    ELSE {<< >>}

\* send_broadcast that propagates a recipient's failure instead of skipping it.
send_broadcast_strict(from, content, order) ==
    IF from \notin Registered
    THEN SendFailed("SenderNotFound")
    ELSE LET r == broadcast_loop(order, from, content, objs, nsent, << >>)
         IN  IF Len(r.out) < Len(order) THEN SendFailed("SessionNotFound")
             ELSE r

send_broadcast(from, content, order) ==
    IF from \notin Registered
    THEN SendFailed("SenderNotFound")
    ELSE broadcast_loop(order, from, content, objs, nsent, << >>)

SendBroadcast(from, content) ==
    /\ Idle
    /\ \E order \in BroadcastOrders(from) :
          LET r == send_broadcast(from, content, order)
          IN  /\ objs' = r.objs
              /\ nsent' = r.nsent
    /\ UNCHANGED <<agents, held, session_ids, active_session, tasks, waiting>>

(***************************************************************************)
(* AgentSystem::create_session.  The loop visits the registered agents in  *)
(* the order the HashMap yields them, which is any order: `order`.  It     *)
(* returns at the first agent that already has the session.                *)
(***************************************************************************)
RECURSIVE create_session_loop(_, _, _, _)
create_session_loop(order, sid, table, tks) ==
    IF order = << >>
    THEN [ok |-> TRUE, objs |-> table, tasks |-> tks]
    ELSE LET o == agents[Head(order)]
             r == Agent_create_session(table[o], sid)
             join_handle == NextTaskId(tks, o, sid)[3]
         IN  IF ~r.ok
             THEN [ok |-> FALSE, objs |-> table, tasks |-> tks]
             ELSE create_session_loop(Tail(order), sid,
                      [table EXCEPT ![o] =
                          set_session_join_handle(r.agent, sid, join_handle)],
                      start_session(tks, o, sid))

CreateOrders == Perms(Registered)

\* create_session that always makes the new session the active one.
create_session_activates(table, ids, active, session_id, order) ==
    IF session_id \in ids
    THEN [res |-> "AlreadyExists", objs |-> table, tasks |-> tasks,
          session_ids |-> ids, active_session |-> active]
    ELSE LET r == create_session_loop(order, session_id, table, tasks)
         IN  IF ~r.ok
             THEN [res |-> "AgentSessionExists", objs |-> r.objs,
                   tasks |-> r.tasks, session_ids |-> ids,
                   active_session |-> active]
             ELSE [res |-> "Ok", objs |-> r.objs, tasks |-> r.tasks,
                   session_ids |-> ids \cup {session_id},
                   active_session |-> session_id]

\* create_session without its first check.
create_session_unchecked(table, ids, active, session_id, order) ==
    LET r == create_session_loop(order, session_id, table, tasks)
    IN  IF ~r.ok
        THEN [res |-> "AgentSessionExists", objs |-> r.objs,
              tasks |-> r.tasks, session_ids |-> ids,
              active_session |-> active]
        ELSE [res |-> "Ok", objs |-> r.objs, tasks |-> r.tasks,
              session_ids |-> ids \cup {session_id},
              active_session |-> IF active = None THEN session_id ELSE active]

\* create_session on the agents' table, the session id set and the active
\* session given (the registry and the tasks are the current ones).
create_session_from(table, ids, active, session_id, order) ==
    IF session_id \in ids
    THEN [res |-> "AlreadyExists", objs |-> table, tasks |-> tasks,
          session_ids |-> ids, active_session |-> active]
    ELSE LET r == create_session_loop(order, session_id, table, tasks)
         IN  IF ~r.ok
             THEN [res |-> "AgentSessionExists", objs |-> r.objs,
                   tasks |-> r.tasks, session_ids |-> ids,
                   active_session |-> active]
             ELSE [res |-> "Ok", objs |-> r.objs, tasks |-> r.tasks,
                   session_ids |-> ids \cup {session_id},
                   active_session |-> IF active = None
                                      THEN session_id ELSE active]

create_session(session_id, order) ==
    create_session_from(objs, session_ids, active_session, session_id, order)

CreateSession(session_id) ==
    /\ Idle
    /\ \E order \in CreateOrders :
          LET r == create_session(session_id, order)
          IN  /\ objs' = r.objs
              /\ tasks' = r.tasks
              /\ session_ids' = r.session_ids
              /\ active_session' = r.active_session
    /\ UNCHANGED <<agents, held, waiting, nsent>>

(***************************************************************************)
(* AgentSystem::set_active_session                                         *)
(***************************************************************************)
\* set_active_session without its check.
set_active_session_unchecked(session_id) ==
    [res |-> "Ok", active_session |-> session_id]

set_active_session(session_id) ==
    IF session_id \notin session_ids
    THEN [res |-> "SessionError_NotFound", active_session |-> active_session]
    ELSE [res |-> "Ok", active_session |-> session_id]

SetActiveSession(session_id) ==
    /\ Idle
    /\ active_session' = set_active_session(session_id).active_session
    /\ UNCHANGED <<objs, agents, held, session_ids, tasks, waiting, nsent>>

(***************************************************************************)
(* AgentSystem::remove_session                                             *)
(***************************************************************************)
\* A loop over every Agent value there is, registered or not.
remove_session_agents_all(table, session_id) ==
    [o \in DOMAIN table |-> Agent_remove_session(table[o], session_id)]

\* The loop over the registered agents: each drops its session session_id.
remove_session_agents(table, session_id) ==
    [o \in DOMAIN table |->
        IF IsRegisteredObj(o) THEN Agent_remove_session(table[o], session_id)
        ELSE table[o]]

\* remove_session that leaves the active session as it is.
remove_session_keeps_active(table, session_id) ==
    [res |-> "Ok",
     objs |-> remove_session_agents(table, session_id),
     session_ids |-> session_ids \ {session_id},
     active_session |-> active_session]

\* remove_session that moves the active session to a remaining one.
remove_session_switches(table, session_id) ==
    [res |-> "Ok",
     objs |-> remove_session_agents(table, session_id),
     session_ids |-> session_ids \ {session_id},
     active_session |->
         IF active_session # session_id THEN active_session
         ELSE IF session_ids \ {session_id} = {} THEN None
         ELSE CHOOSE s \in session_ids \ {session_id} : TRUE]

remove_session_from(table, session_id) ==
    [res |-> "Ok",
     objs |-> remove_session_agents(table, session_id),
     session_ids |-> session_ids \ {session_id},
     active_session |-> IF active_session = session_id THEN None
                        ELSE active_session]

remove_session(session_id) == remove_session_from(objs, session_id)

RemoveSession(session_id) ==
    /\ Idle
    /\ LET r == remove_session(session_id)
       IN  /\ objs' = r.objs
           /\ session_ids' = r.session_ids
           /\ active_session' = r.active_session
    /\ UNCHANGED <<agents, held, tasks, waiting, nsent>>

(***************************************************************************)
(* AgentSystem::wait_for_session_tasks.  The operator is the call up to    *)
(* its await (res "Pending", the collected handles in waiting) or its      *)
(* early return; WaitReturn is its return once every collected task has    *)
(* ended.                                                                  *)
(***************************************************************************)
\* The handles the first loop collects.
collect_handles(session_id) ==
    {<<o, session_id, take_session_join_handle(objs[o], session_id).handle>> :
        o \in {x \in DOMAIN objs :
                  /\ IsRegisteredObj(x)
                  /\ take_session_join_handle(objs[x], session_id).handle # 0}}

\* The agents' table once the first loop has taken the handles.
take_handles(table, session_id) ==
    [o \in DOMAIN table |->
        IF IsRegisteredObj(o)
        THEN take_session_join_handle(table[o], session_id).agent
        ELSE table[o]]

\* wait_for_session_tasks that removes the session before it looks at the
\* handles it collected.
wait_for_session_tasks_removes_first(session_id) ==
    LET r == remove_session_from(take_handles(objs, session_id), session_id)
    IN  IF collect_handles(session_id) = {}
        THEN [res |-> "NoTasksFound", objs |-> r.objs,
              session_ids |-> r.session_ids,
              active_session |-> r.active_session, waiting |-> {}]
        ELSE [res |-> "Pending", objs |-> r.objs,
              session_ids |-> r.session_ids,
              active_session |-> r.active_session,
              waiting |-> collect_handles(session_id)]

wait_for_session_tasks(session_id) ==
    IF collect_handles(session_id) = {}
    THEN [res |-> "NoTasksFound", objs |-> objs, session_ids |-> session_ids,
          active_session |-> active_session, waiting |-> {}]
    ELSE LET r == remove_session_from(take_handles(objs, session_id), session_id)
         IN  [res |-> "Pending", objs |-> r.objs, session_ids |-> r.session_ids,
              active_session |-> r.active_session,
              waiting |-> collect_handles(session_id)]

WaitForSessionTasks(session_id) ==
    /\ Idle
    /\ LET r == wait_for_session_tasks(session_id)
       IN  /\ objs' = r.objs
           /\ session_ids' = r.session_ids
           /\ active_session' = r.active_session
           /\ waiting' = r.waiting
    /\ UNCHANGED <<agents, held, tasks, nsent>>

\* The return of a wait that ends with the first task that ends.
WaitReturn_first ==
    /\ waiting # {}
    /\ \E t \in waiting : tasks[t].pc = "Stopped"
    /\ waiting' = {}
    /\ UNCHANGED <<objs, agents, held, session_ids, active_session, tasks,
                   nsent>>

WaitReturn ==
    /\ waiting # {}
    /\ \A t \in waiting : tasks[t].pc = "Stopped"
    /\ waiting' = {}
    /\ UNCHANGED <<objs, agents, held, session_ids, active_session, tasks,
                   nsent>>

(***************************************************************************)
(* Agent::start_session: the steps of a consumer task.                     *)
(***************************************************************************)
\* A poll that ends the task when it finds the queue empty.
Poll_stops_when_empty(t) ==
    /\ t \in DOMAIN tasks
    /\ tasks[t].pc = "Polling"
    /\ LET o == t[1]
           sid == t[2]
       IN  IF has_session(objs[o], sid)
           THEN LET r == pop_message_from_stack(objs[o].sessions[sid])
                IN  /\ objs' = [objs EXCEPT ![o].sessions[sid] = r.session]
                    /\ tasks' = IF ~r.some
                                THEN [tasks EXCEPT ![t].pc = "Stopped"]
                                ELSE [tasks EXCEPT ![t] =
                                        [pc |-> "Processing",
                                         message |-> r.message,
                                         taken_from |->
                                             objs[o].sessions[sid].join_handle,
                                         holds |-> {}]]
           ELSE /\ tasks' = [tasks EXCEPT ![t].pc = "Stopped"]
                /\ UNCHANGED objs
    /\ UNCHANGED <<agents, held, session_ids, active_session, waiting, nsent>>

\* One pass of the first critical section: pop the oldest message, or end
\* when the session is gone.  An empty queue leaves the task Polling (it
\* sleeps and polls again).
Poll(t) ==
    /\ t \in DOMAIN tasks
    /\ tasks[t].pc = "Polling"
    /\ LET o == t[1]
           sid == t[2]
       IN  IF has_session(objs[o], sid)
           THEN LET r == pop_message_from_stack(objs[o].sessions[sid])
                IN  /\ objs' = [objs EXCEPT ![o].sessions[sid] = r.session]
                    /\ tasks' = IF ~r.some THEN tasks
                                ELSE [tasks EXCEPT ![t] =
                                        [pc |-> "Processing",
                                         message |-> r.message,
                                         taken_from |->
                                             objs[o].sessions[sid].join_handle,
                                         holds |-> {}]]
           ELSE /\ tasks' = [tasks EXCEPT ![t].pc = "Stopped"]
                /\ UNCHANGED objs
    /\ UNCHANGED <<agents, held, session_ids, active_session, waiting, nsent>>

\* The model call returned Ok(response): the second critical section records
\* the entry if the session is there; the task sleeps and polls again.
CallOk(t) ==
    /\ t \in DOMAIN tasks
    /\ tasks[t].pc = "Processing"
    /\ LET o == t[1]
           sid == t[2]
       IN  objs' = IF has_session(objs[o], sid)
                   THEN [objs EXCEPT ![o].sessions[sid] =
                           add_message_with_response(@, tasks[t].message,
                                                     Response)]
                   ELSE objs
    /\ tasks' = [tasks EXCEPT ![t] = Task_new]
    /\ UNCHANGED <<agents, held, session_ids, active_session, waiting, nsent>>

\* A failed call that puts the message back at the end of the queue.
CallErr_requeues(t) ==
    /\ t \in DOMAIN tasks
    /\ tasks[t].pc = "Processing"
    /\ LET o == t[1]
           sid == t[2]
       IN  objs' = IF has_session(objs[o], sid)
                   THEN [objs EXCEPT ![o].sessions[sid] =
                           push_message_to_stack(@, tasks[t].message)]
                   ELSE objs
    /\ tasks' = [tasks EXCEPT ![t] = Task_new]
    /\ UNCHANGED <<agents, held, session_ids, active_session, waiting, nsent>>

\* A failed call that ends the task.
CallErr_stops(t) ==
    /\ t \in DOMAIN tasks
    /\ tasks[t].pc = "Processing"
    /\ tasks' = [tasks EXCEPT ![t] = [Task_new EXCEPT !.pc = "Stopped"]]
    /\ UNCHANGED <<objs, agents, held, session_ids, active_session, waiting,
                   nsent>>

\* The model call returned Err: logged, nothing recorded.
CallErr(t) ==
    /\ t \in DOMAIN tasks
    /\ tasks[t].pc = "Processing"
    /\ tasks' = [tasks EXCEPT ![t] = Task_new]
    /\ UNCHANGED <<objs, agents, held, session_ids, active_session, waiting,
                   nsent>>

(***************************************************************************)
(* Agent::start_session lock by lock.  A task that is Locked has taken the *)
(* session-map mutex of its agent for the first block of the loop (agent.rs *)
(* 36-44); one that has Returned got Ok from the model call and is about   *)
(* to take the mutex again; one that is Recording holds it in the Ok arm.  *)
(***************************************************************************)
SessionsMutex(o) == <<o, "sessions">>

\* Mutex::lock returns only when no other guard of the mutex is alive.
MutexFree(m) == \A u \in DOMAIN tasks : m \notin tasks[u].holds

\* sessions.lock() of the first block.
LockForPoll(t) ==
    /\ t \in DOMAIN tasks
    /\ tasks[t].pc = "Polling"
    /\ MutexFree(SessionsMutex(t[1]))
    /\ tasks' = [tasks EXCEPT ![t].pc = "Locked",
                              ![t].holds = @ \cup {SessionsMutex(t[1])}]
    /\ UNCHANGED <<objs, agents, held, session_ids, active_session, waiting,
                   nsent>>

\* A first block whose guard lives on when a message was taken.
PollLocked_keeps_guard(t) ==
    /\ t \in DOMAIN tasks
    /\ tasks[t].pc = "Locked"
    /\ LET o == t[1]
           sid == t[2]
       IN  IF has_session(objs[o], sid)
           THEN LET r == pop_message_from_stack(objs[o].sessions[sid])
                IN  /\ objs' = [objs EXCEPT ![o].sessions[sid] = r.session]
                    /\ tasks' = IF ~r.some
                                THEN [tasks EXCEPT ![t] = Task_new]
                                ELSE [tasks EXCEPT
                                        ![t].pc = "Processing",
                                        ![t].message = r.message,
                                        ![t].taken_from =
                                            objs[o].sessions[sid].join_handle]
           ELSE /\ tasks' = [tasks EXCEPT ![t].pc = "Stopped",
                                          ![t].holds = {}]
                /\ UNCHANGED objs
    /\ UNCHANGED <<agents, held, session_ids, active_session, waiting, nsent>>

\* The rest of the first block: pop or break, and the guard is dropped at
\* the end of the block.
PollLocked(t) ==
    /\ t \in DOMAIN tasks
    /\ tasks[t].pc = "Locked"
    /\ LET o == t[1]
           sid == t[2]
       IN  IF has_session(objs[o], sid)
           THEN LET r == pop_message_from_stack(objs[o].sessions[sid])
                IN  /\ objs' = [objs EXCEPT ![o].sessions[sid] = r.session]
                    /\ tasks' = IF ~r.some
                                THEN [tasks EXCEPT ![t] = Task_new]
                                ELSE [tasks EXCEPT
                                        ![t].pc = "Processing",
                                        ![t].message = r.message,
                                        ![t].taken_from =
                                            objs[o].sessions[sid].join_handle,
                                        ![t].holds = {}]
           ELSE /\ tasks' = [tasks EXCEPT ![t].pc = "Stopped",
                                          ![t].holds = {}]
                /\ UNCHANGED objs
    /\ UNCHANGED <<agents, held, session_ids, active_session, waiting, nsent>>

\* The model call returned Ok(response).
CallReturnsOk(t) ==
    /\ t \in DOMAIN tasks
    /\ tasks[t].pc = "Processing"
    /\ tasks' = [tasks EXCEPT ![t].pc = "Returned"]
    /\ UNCHANGED <<objs, agents, held, session_ids, active_session, waiting,
                   nsent>>

\* sessions.lock() of the Ok arm.
LockForRecord(t) ==
    /\ t \in DOMAIN tasks
    /\ tasks[t].pc = "Returned"
    /\ MutexFree(SessionsMutex(t[1]))
    /\ tasks' = [tasks EXCEPT ![t].pc = "Recording",
                              ![t].holds = @ \cup {SessionsMutex(t[1])}]
    /\ UNCHANGED <<objs, agents, held, session_ids, active_session, waiting,
                   nsent>>

\* The rest of the Ok arm: the entry is recorded if the session is there,
\* and the guard is dropped at the end of the arm.
RecordLocked(t) ==
    /\ t \in DOMAIN tasks
    /\ tasks[t].pc = "Recording"
    /\ LET o == t[1]
           sid == t[2]
       IN  objs' = IF has_session(objs[o], sid)
                   THEN [objs EXCEPT ![o].sessions[sid] =
                           add_message_with_response(@, tasks[t].message,
                                                     Response)]
                   ELSE objs
    /\ tasks' = [tasks EXCEPT ![t] = Task_new]
    /\ UNCHANGED <<agents, held, session_ids, active_session, waiting, nsent>>

\* A registry operation locks the session map of each registered agent it
\* visits (Agent::create_session, remove_session, send_message), one at a
\* time and for the length of the call: it proceeds when they are free.
SessionMapsFree ==
    \A n \in Registered : MutexFree(SessionsMutex(agents[n]))

(***************************************************************************)
(* Specifications.  Each one takes the operations and inputs its claims    *)
(* are about, and stops a run from building more than its bound of Agent   *)
(* values (maxObjs), consumer tasks (maxTasks) and enqueued messages       *)
(* (maxSends).                                                             *)
(***************************************************************************)
ObjsWithin(maxObjs) == Cardinality(DOMAIN objs) <= maxObjs
TasksWithin(maxTasks) == Cardinality(DOMAIN tasks) <= maxTasks
SendsWithin(maxSends) == TotalSent(nsent) <= maxSends

Graph(NS, RS, maxObjs) ==
    \/ \E n \in NS, r \in RS : AddAgentFresh(n, r) /\ ObjsWithin(maxObjs)'
    \/ \E o \in held : AddAgentHeld(o)
    \/ \E n \in NS : RemoveAgent(n)
    \/ \E a, b \in NS : ConnectAgents(a, b)
    \/ \E a, b \in NS : DisconnectAgents(a, b)

Sessions(SS, maxTasks) ==
    \/ \E s \in SS : CreateSession(s) /\ TasksWithin(maxTasks)'
    \/ \E s \in SS : SetActiveSession(s)
    \/ \E s \in SS : RemoveSession(s)

Waits(SS) ==
    \/ \E s \in SS : WaitForSessionTasks(s)
    \/ WaitReturn

Sends(NS, CS, maxSends) ==
    \/ \E a, b \in NS, c \in CS : SendMessage(a, b, c) /\ SendsWithin(maxSends)'
    \/ \E a \in NS, c \in CS : SendBroadcast(a, c) /\ SendsWithin(maxSends)'

Consumers ==
    \/ \E t \in DOMAIN tasks : Poll(t)
    \/ \E t \in DOMAIN tasks : CallOk(t)
    \/ \E t \in DOMAIN tasks : CallErr(t)

\* The connection graph: add_agent, remove_agent, connect_agents and
\* disconnect_agents over three names.
GraphMaxObjs == 3
NextGraph == Graph(Names, {"r1"}, GraphMaxObjs)

SpecGraph == Init /\ [][NextGraph]_vars

(***************************************************************************)
(* Claims about the connection graph (SpecGraph).                          *)
(***************************************************************************)
Connected(table, registry, a, b) == is_connected_to(table[registry[a]], b)

\* C1: for registered agents a and b, right after connect_agents(a, b)
\* returns Ok each is connected to the other, and right after
\* disconnect_agents(a, b) returns neither is connected to the other.
C1_ConnectDisconnect ==
    \A a, b \in Registered :
        /\ LET r == connect_agents(a, b)
           IN  /\ r.res = "Ok"
               /\ Connected(r.objs, agents, a, b)
               /\ Connected(r.objs, agents, b, a)
        /\ LET r == disconnect_agents(a, b)
           IN  /\ r.res = "Ok"
               /\ ~Connected(r.objs, agents, a, b)
               /\ ~Connected(r.objs, agents, b, a)

\* Two different registered agents connected to each other, one of them
\* also to a third: the state connect_agents leaves, and one in which
\* disconnect_agents has something to remove.
C1_Witness ==
    \E a, b, c \in Registered :
        /\ a # b /\ b # c /\ a # c
        /\ Connected(objs, agents, a, b)
        /\ Connected(objs, agents, b, a)
        /\ Connected(objs, agents, a, c)

\* C2: after remove_agent(n) returns Ok, n is not registered and no agent
\* still registered has n in its connection set.
C2_RemoveAgentCleans ==
    \A n \in Names :
        LET r == remove_agent(n)
        IN  r.res = "Ok" =>
              /\ n \notin DOMAIN r.agents
              /\ \A m \in DOMAIN r.agents :
                    ~is_connected_to(r.objs[r.agents[m]], n)

\* remove_agent has returned an Agent that is still connected to two agents
\* which remain registered and no longer list it.
C2_Witness ==
    \E o \in held : \E m1, m2 \in Registered :
        /\ m1 # m2
        /\ objs[o].name \notin Registered
        /\ {m1, m2} \subseteq objs[o].connections
        /\ ~Connected(objs, agents, m1, objs[o].name)
        /\ ~Connected(objs, agents, m2, objs[o].name)

(***************************************************************************)
(* Routing: all the graph operations over two names, one session id that   *)
(* is created, activated and removed, send_message and send_broadcast.     *)
(* The consumer tasks are spawned and never scheduled.                     *)
(***************************************************************************)
SendNames == {"A", "B"}
SendMaxObjs == 2
SendMaxTasks == 2
SendMaxSends == 2
NextSend ==
    \/ Graph(SendNames, {"r1"}, SendMaxObjs)
    \/ Sessions({"s1"}, SendMaxTasks)
    \/ Sends(SendNames, {"x"}, SendMaxSends)

SpecSend == Init /\ [][NextSend]_vars

HoldsActive(name) ==
    /\ name \in Registered
    /\ active_session # None
    /\ has_session(get_agent(name), active_session)

\* C3: send_message fails with NotConnected exactly when both names are
\* registered and the sender is not connected to the recipient, and with
\* NotFound whenever either name is unregistered.
C3_SendErrors ==
    \A from, to \in Names, content \in Contents :
        LET r == send_message(from, to, content)
        IN  /\ r.res = "NotConnected" <=>
                  /\ from \in Registered
                  /\ to \in Registered
                  /\ to \notin get_agent(from).connections
            /\ (from \notin Registered \/ to \notin Registered)
                  => r.res = "NotFound"

\* Only the missing connection stops the send: both agents are registered,
\* the recipient holds the active session and has agents connected to it,
\* and an earlier send has been delivered.
C3_Witness ==
    \E from, to \in Registered :
        /\ from # to
        /\ send_message(from, to, "x").res = "NotConnected"
        /\ HoldsActive(to)
        /\ get_agent(to).connections # {}
        /\ get_agent(to).sessions[active_session].message_stack # << >>

\* C4: with both agents registered and connected and no active session,
\* send_message fails with NoActiveSession and changes no queue.
C4_NoActiveSession ==
    \A from, to \in Registered, content \in Contents :
        (to \in get_agent(from).connections /\ active_session = None) =>
            LET r == send_message(from, to, content)
            IN  /\ r.res = "NoActiveSession"
                /\ r.objs = objs
                /\ r.nsent = nsent

\* A session was created and removed again: the recipient has received a
\* message before, and now no session is active.
C4_Witness ==
    \E from, to \in Registered :
        /\ from # to
        /\ to \in get_agent(from).connections
        /\ active_session = None
        /\ nsent[agents[to]] > 0
        /\ send_message(from, to, "x").res = "NoActiveSession"

\* The connections of `from` that a broadcast reaches.
Reached(from) == {n \in get_agent(from).connections : HoldsActive(n)}

\* The message of `sent` addressed to n.
SentTo(sent, n) == sent[CHOOSE i \in DOMAIN sent : sent[i].to = n]

\* C6: send_broadcast from a registered sender appends exactly one message
\* to the active-session queue of each connection that is registered and
\* holds the active session, returns exactly those messages, each from the
\* sender with the given content, and changes nothing of any other agent.
C6_Broadcast ==
    \A from \in Registered, content \in Contents :
        \A order \in BroadcastOrders(from) :
            LET r == send_broadcast(from, content, order)
            IN  /\ r.res = "Ok"
                /\ Len(r.out) = Cardinality(Reached(from))
                /\ {r.out[i].to : i \in DOMAIN r.out} = Reached(from)
                /\ \A i \in DOMAIN r.out :
                      r.out[i].from = from /\ r.out[i].content = content
                /\ \A n \in Reached(from) :
                      r.objs[agents[n]] =
                          [objs[agents[n]] EXCEPT
                              !.sessions[active_session].message_stack =
                                  Append(@, SentTo(r.out, n))]
                /\ \A o \in DOMAIN objs :
                      (\A n \in Reached(from) : agents[n] # o)
                          => r.objs[o] = objs[o]

\* A sender whose broadcast reaches two agents, in a state a broadcast has
\* left: both hold a message from the sender at the tail of their queue.
C6_Witness ==
    \E from \in Registered :
        /\ Cardinality(Reached(from)) = 2
        /\ \A n \in Reached(from) :
              LET q == get_agent(n).sessions[active_session].message_stack
              IN  q # << >> /\ q[Len(q)].from = from /\ q[Len(q)].to = n

\* C7: send_broadcast fails only for an unregistered sender; for a
\* registered sender with no connections, with no active session, or with
\* no connected agent holding the active session, it returns an empty list
\* and changes no queue.
C7_BroadcastErrors ==
    \A from \in Names, content \in Contents :
        \A order \in BroadcastOrders(from) :
            LET r == send_broadcast(from, content, order)
            IN  /\ r.res # "Ok" <=> from \notin Registered
                /\ (/\ from \in Registered
                    /\ \/ get_agent(from).connections = {}
                       \/ active_session = None
                       \/ Reached(from) = {})
                      => /\ r.out = << >>
                         /\ r.objs = objs
                         /\ r.nsent = nsent

\* A registered sender with a registered connection and an active session
\* that no connected agent holds: the broadcast is Ok and empty.
C7_Witness ==
    \E from \in Registered : \E n \in Registered :
        /\ n # from
        /\ n \in get_agent(from).connections
        /\ active_session # None
        /\ Reached(from) = {}
        /\ \A order \in BroadcastOrders(from) :
              send_broadcast(from, "x", order).res = "Ok"

(***************************************************************************)
(* Two sessions: two agents that are added, connected and disconnected,    *)
(* two session ids that are created, activated and removed, and            *)
(* send_message.  The consumer tasks are spawned and never scheduled.      *)
(***************************************************************************)
FrameMaxObjs == 2
FrameMaxTasks == 3
FrameMaxSends == 2
NextFrame ==
    \/ \E n \in SendNames : AddAgentFresh(n, "r1") /\ ObjsWithin(FrameMaxObjs)'
    \/ \E a, b \in SendNames : ConnectAgents(a, b)
    \/ \E a, b \in SendNames : DisconnectAgents(a, b)
    \/ Sessions(SessionIds, FrameMaxTasks)
    \/ \E a, b \in SendNames :
          SendMessage(a, b, "x") /\ SendsWithin(FrameMaxSends)'

SpecFrame == Init /\ [][NextFrame]_vars

\* C5: a successful send_message appends the message to the recipient's
\* queue for the session active at the call and changes no other agent's or
\* session's queue; a failed call changes no queue at all.
C5_SendFrame ==
    \A from, to \in Names, content \in Contents :
        LET r == send_message(from, to, content)
        IN  IF r.res = "Ok"
            THEN /\ active_session # None
                 /\ r.out.from = from /\ r.out.to = to
                 /\ r.out.content = content
                 /\ r.objs =
                        [objs EXCEPT
                            ![agents[to]].sessions[active_session]
                                .message_stack = Append(@, r.out)]
            ELSE r.objs = objs /\ r.nsent = nsent

\* The recipient holds two sessions, and a send has succeeded under each of
\* them in turn: each queue holds one message, and the other registered
\* agent's queue is empty.
C5_Witness ==
    \E to, other \in Registered :
        /\ other # to
        /\ DOMAIN get_agent(to).sessions = SessionIds
        /\ \A s \in SessionIds :
              Len(get_agent(to).sessions[s].message_stack) = 1
        /\ HoldsActive(other)
        /\ get_agent(other).sessions[active_session].message_stack = << >>

(***************************************************************************)
(* The queue: two agents, one session id that is created and removed, and  *)
(* re-created, send_message, and the consumer tasks.                       *)
(***************************************************************************)
QueueMaxObjs == 2
QueueMaxTasks == 4
QueueMaxSends == 3
NextQueue ==
    \/ \E n \in SendNames : AddAgentFresh(n, "r1") /\ ObjsWithin(QueueMaxObjs)'
    \/ \E a, b \in SendNames : ConnectAgents(a, b)
    \/ Sessions({"s1"}, QueueMaxTasks)
    \/ \E a, b \in SendNames :
          SendMessage(a, b, "x") /\ SendsWithin(QueueMaxSends)'
    \/ Consumers

SpecQueue == Init /\ [][NextQueue]_vars

\* The task took a message off its queue in this step.
Dequeues(t) ==
    /\ t \in DOMAIN tasks
    /\ tasks[t].pc = "Polling"
    /\ tasks'[t].pc = "Processing"

\* C8: the messages queued for one agent in one session are dequeued
\* strictly in the order they were enqueued: every dequeue takes the message
\* enqueued before all the others in the queue and leaves those in place.
C8_Fifo ==
    [][\A t \in DOMAIN tasks :
          Dequeues(t) =>
              LET q == objs[t[1]].sessions[t[2]].message_stack
              IN  /\ q # << >>
                  /\ tasks'[t].message \in {q[i] : i \in DOMAIN q}
                  /\ \A i \in DOMAIN q :
                        q[i] # tasks'[t].message
                            => q[i].id > tasks'[t].message.id
                  /\ objs'[t[1]].sessions[t[2]].message_stack = Tail(q)]_vars

\* The first message enqueued for the agent has been processed and logged,
\* the second is being processed, and the third is still queued.
C8_Witness ==
    \E t \in DOMAIN tasks :
        /\ tasks[t].pc = "Processing"
        /\ tasks[t].message.id = 2
        /\ has_session(objs[t[1]], t[2])
        /\ LET s == objs[t[1]].sessions[t[2]]
           IN  /\ Len(s.entries) = 1
               /\ s.entries[1].message.id = 1
               /\ Len(s.message_stack) = 1
               /\ s.message_stack[1].id = 3

(***************************************************************************)
(* Sessions over a changing registry: the graph operations over two names, *)
(* with removed agents added again, and two session ids that are created,  *)
(* activated and removed.  The consumer tasks are spawned and never        *)
(* scheduled.                                                              *)
(***************************************************************************)
SessionMaxObjs == 2
SessionMaxTasks == 3
NextSession ==
    \/ Graph(SendNames, {"r1"}, SessionMaxObjs)
    \/ Sessions(SessionIds, SessionMaxTasks)

SpecSession == Init /\ [][NextSession]_vars

\* C9: create_session with an id already in the system-wide set fails and
\* leaves the session id set, the active session, every agent's session
\* map and the set of consumer tasks unchanged.
C9_DuplicateSession ==
    \A sid \in session_ids : \A order \in CreateOrders :
        LET r == create_session(sid, order)
        IN  /\ r.res = "AlreadyExists"
            /\ r.session_ids = session_ids
            /\ r.active_session = active_session
            /\ r.objs = objs
            /\ r.tasks = tasks

\* The id is known, one registered agent holds the session with its
\* consumer running, and another registered agent, added later, does not.
C9_Witness ==
    \E sid \in session_ids : \E a, b \in Registered :
        /\ has_session(get_agent(a), sid)
        /\ <<agents[a], sid, get_agent(a).sessions[sid].join_handle>>
              \in DOMAIN tasks
        /\ ~has_session(get_agent(b), sid)
        /\ \A order \in CreateOrders :
              create_session(sid, order).res = "AlreadyExists"

\* remove_session(id) and then create_session(id), from the current state.
RemoveThenCreate(sid, order) ==
    LET r == remove_session(sid)
    IN  create_session_from(r.objs, r.session_ids, r.active_session,
                            sid, order)

\* C10: in every reachable state of the registry, remove_session(id)
\* followed by create_session(id) succeeds.
C10_RemoveThenCreate ==
    \A sid \in SessionIds :
        /\ remove_session(sid).res = "Ok"
        /\ \A order \in CreateOrders :
              LET r == RemoveThenCreate(sid, order)
              IN  /\ r.res = "Ok"
                  /\ sid \in r.session_ids
                  /\ \A n \in Registered : has_session(r.objs[agents[n]], sid)

\* An agent was removed, its session was removed from the system, and the
\* agent was added again still holding it: create_session alone fails, and
\* after remove_session it succeeds.
C10_Witness ==
    \E sid \in SessionIds : \E n \in Registered :
        /\ sid \notin session_ids
        /\ has_session(get_agent(n), sid)
        /\ \A order \in CreateOrders :
              /\ create_session(sid, order).res = "AgentSessionExists"
              /\ RemoveThenCreate(sid, order).res = "Ok"

\* Every send_message that succeeds in this state enqueues under session sid.
SendsTarget(sid) ==
    \A from, to \in Registered :
        LET r == send_message(from, to, "x")
        IN  r.res = "Ok" =>
                /\ has_session(get_agent(to), sid)
                /\ r.objs[agents[to]].sessions[sid].message_stack =
                       Append(get_agent(to).sessions[sid].message_stack, r.out)

RegistryMaxObjs == 2
RegistryMaxTasks == 3
NextRegistry ==
    \/ \E n \in SendNames :
          AddAgentFresh(n, "r1") /\ ObjsWithin(RegistryMaxObjs)'
    \/ \E o \in held : AddAgentHeld(o)
    \/ \E n \in SendNames : RemoveAgent(n)
    \/ Sessions(SessionIds, RegistryMaxTasks)
    \/ Waits(SessionIds)
    \/ \E t \in DOMAIN tasks : Poll(t)

SpecRegistry == Init /\ [][NextRegistry]_vars

\* C12: in every reachable state the active session is unset or a member
\* of the system-wide session id set.
C12_ActiveIsKnown == active_session = None \/ active_session \in session_ids

\* The active session was removed while another one remained: a consumer
\* has stopped, a session id is still known, and no session is active.
C12_Witness ==
    /\ active_session = None
    /\ session_ids # {}
    /\ \E t \in DOMAIN tasks : tasks[t].pc = "Stopped"

\* C13: set_active_session(id) fails with NotFound and leaves the active
\* session unchanged when id is unknown; otherwise it sets the active
\* session to id, and the step changes nothing else.
C13_SetActive ==
    /\ [](\A sid \in SessionIds :
            LET r == set_active_session(sid)
            IN  IF sid \notin session_ids
                THEN /\ r.res = "SessionError_NotFound"
                     /\ r.active_session = active_session
                ELSE /\ r.res = "Ok"
                     /\ r.active_session = sid)
    /\ [][\A sid \in SessionIds :
            SetActiveSession(sid) =>
                UNCHANGED <<objs, agents, held, session_ids, tasks, waiting,
                            nsent>>]_vars

\* Both ids are known and the second is the active one, with a message
\* still queued under the first session and its consumer still running.
C13_Witness ==
    /\ session_ids = SessionIds
    /\ active_session = "s2"
    /\ \E n \in Registered :
          /\ has_session(get_agent(n), "s1")
          /\ get_agent(n).sessions["s1"].message_stack # << >>
          /\ <<agents[n], "s1", 1>> \in DOMAIN tasks
          /\ tasks[<<agents[n], "s1", 1>>].pc = "Polling"

\* C14: remove_session(id) always succeeds; afterwards no registered agent
\* holds the session, id is not in the session id set, and the active
\* session is cleared if it was id and unchanged otherwise.
C14_RemoveSession ==
    \A sid \in SessionIds :
        LET r == remove_session(sid)
        IN  /\ r.res = "Ok"
            /\ \A n \in Registered : ~has_session(r.objs[agents[n]], sid)
            /\ sid \notin r.session_ids
            /\ r.active_session =
                   IF active_session = sid THEN None ELSE active_session

\* The first session was removed while it was active and the second one
\* remained: an agent that had a consumer for the first holds only the
\* second, and no session is active.
C14_Witness ==
    /\ session_ids = {"s2"}
    /\ active_session = None
    /\ \E n \in Registered :
          /\ DOMAIN get_agent(n).sessions = {"s2"}
          /\ <<agents[n], "s1", 1>> \in DOMAIN tasks

\* The registered agents that hold a task handle for session sid.
HandleHolders(sid) ==
    {n \in Registered :
        /\ has_session(get_agent(n), sid)
        /\ get_agent(n).sessions[sid].join_handle # 0}

\* C15: wait_for_session_tasks(id) returns the 'no tasks found' failure
\* whenever no registered agent holds a task handle for id, and then
\* leaves the session id set, the active session and every agent's session
\* map unchanged.
C15_NoTasksFound ==
    \A sid \in SessionIds :
        HandleHolders(sid) = {} =>
            LET r == wait_for_session_tasks(sid)
            IN  /\ r.res = "NoTasksFound"
                /\ r.session_ids = session_ids
                /\ r.active_session = active_session
                /\ r.objs = objs
                /\ r.waiting = {}

\* A session created while no agent was registered: it is known and
\* active, an agent is registered by now, and a second session has tasks,
\* one of which an earlier wait or removal has ended.
C15_Witness ==
    \E sid \in session_ids :
        /\ active_session = sid
        /\ Registered # {}
        /\ HandleHolders(sid) = {}
        /\ \A t \in DOMAIN tasks : t[2] # sid
        /\ \E t \in DOMAIN tasks : tasks[t].pc = "Stopped"
        /\ wait_for_session_tasks(sid).res = "NoTasksFound"

(***************************************************************************)
(* Waiting: two agents, one session id that is created, waited for and     *)
(* created again, send_message and the consumer tasks.  A session ends     *)
(* through wait_for_session_tasks only.                                    *)
(***************************************************************************)
WaitMaxObjs == 2
WaitMaxTasks == 4
WaitMaxSends == 2
NextWait ==
    \/ \E n \in SendNames : AddAgentFresh(n, "r1") /\ ObjsWithin(WaitMaxObjs)'
    \/ \E a, b \in SendNames : ConnectAgents(a, b)
    \/ CreateSession("s1") /\ TasksWithin(WaitMaxTasks)'
    \/ Waits({"s1"})
    \/ \E a, b \in SendNames :
          SendMessage(a, b, "x") /\ SendsWithin(WaitMaxSends)'
    \/ Consumers

SpecWait == Init /\ [][NextWait]_vars

\* The session ids of the handles a pending wait awaits.
WaitedIds == {t[2] : t \in waiting}

\* C16: with at least one task handle for id, wait_for_session_tasks(id)
\* collects every handle, removes the session, and returns only after every
\* collected task has stopped; on return id is in neither the session id
\* set nor any registered agent's session map.
C16_WaitForTasks ==
    /\ [](\A sid \in SessionIds :
            HandleHolders(sid) # {} =>
                LET r == wait_for_session_tasks(sid)
                IN  /\ r.res = "Pending"
                    /\ r.waiting =
                          {<<agents[n], sid,
                             get_agent(n).sessions[sid].join_handle>> :
                               n \in HandleHolders(sid)}
                    /\ r.waiting \subseteq DOMAIN tasks
                    /\ sid \notin r.session_ids
                    /\ \A n \in Registered :
                          ~has_session(r.objs[agents[n]], sid))
    /\ [][(waiting # {} /\ waiting' = {}) =>
            /\ \A t \in waiting : tasks[t].pc = "Stopped"
            /\ \A sid \in WaitedIds :
                  /\ sid \notin session_ids'
                  /\ \A n \in DOMAIN agents' :
                        ~has_session(objs'[agents'[n]], sid)]_vars

\* A wait has returned: the consumers of two registered agents have
\* stopped, one of them after a message was enqueued for it; the session is
\* gone and nothing is awaited.
C16_Witness ==
    /\ waiting = {}
    /\ "s1" \notin session_ids
    /\ \E a, b \in Registered :
          /\ a # b
          /\ {<<agents[a], "s1", 1>>, <<agents[b], "s1", 1>>}
                \subseteq DOMAIN tasks
          /\ tasks[<<agents[a], "s1", 1>>].pc = "Stopped"
          /\ tasks[<<agents[b], "s1", 1>>].pc = "Stopped"
          /\ nsent[agents[a]] > 0

\* The Agent values add_agent can be given for this name: a fresh one, or
\* one that remove_agent returned.
AddCandidates(name) ==
    {NewAgentId(name)} \cup {o \in held : objs[o].name = name}

\* Every Agent value built so far is as it was, and so are the tasks.
AgentsUntouched ==
    /\ \A o \in DOMAIN objs : o \in DOMAIN objs' /\ objs'[o] = objs[o]
    /\ tasks' = tasks
    /\ UNCHANGED <<session_ids, active_session>>

\* C17: add_agent with a registered name fails with Exists and leaves the
\* registry unchanged; add_agent with a new name inserts the agent; in
\* both cases no agent's role, connections, sessions or tasks change.
C17_AddAgent ==
    /\ [](\A name \in Names : \A o \in AddCandidates(name) :
            LET r == add_agent(o, name)
            IN  IF name \in Registered
                THEN r.res = "Exists" /\ r.agents = agents
                ELSE /\ r.res = "Ok"
                     /\ DOMAIN r.agents = Registered \cup {name}
                     /\ r.agents[name] = o
                     /\ \A m \in Registered : r.agents[m] = agents[m])
    /\ [][/\ \A name \in Names, role \in Roles :
                AddAgentFresh(name, role) =>
                    /\ AgentsUntouched
                    /\ agents' = add_agent(NewAgentId(name), name).agents
                    /\ name \in Registered => agents' = agents
          /\ \A o \in held :
                AddAgentHeld(o) =>
                    /\ AgentsUntouched
                    /\ objs[o].name \in Registered => agents' = agents]_vars

\* An add_agent under a registered name has failed: its argument is
\* neither registered nor held, and the registered agent of that name has
\* its connection, its session and its consumer task.
C17_Witness ==
    \E o \in DOMAIN objs :
        /\ ~IsRegisteredObj(o)
        /\ o \notin held
        /\ objs[o].name \in Registered
        /\ LET a == get_agent(objs[o].name)
           IN  /\ a.connections # {}
               /\ \E sid \in DOMAIN a.sessions :
                     <<agents[objs[o].name], sid, a.sessions[sid].join_handle>>
                         \in DOMAIN tasks

\* The step registers name n.
Registers(n) == n \notin Registered /\ n \in DOMAIN agents'

\* The consumer tasks of Agent value o for session sid that have not
\* stopped.
LiveTasks(o, sid) ==
    {t \in DOMAIN tasks : t[1] = o /\ t[2] = sid /\ tasks[t].pc # "Stopped"}

\* C18 as stated: an agent registered after create_session(id) succeeded
\* holds no session id and has no consumer task for it.
C18_LateAgentHoldsNothing ==
    [][\A n \in Names, sid \in SessionIds :
          (Registers(n) /\ sid \in session_ids) =>
              /\ ~has_session(objs'[agents'[n]], sid)
              /\ \A t \in DOMAIN tasks' :
                    (t[1] = agents'[n] /\ t[2] = sid)
                        => tasks'[t].pc = "Stopped"]_vars

\* C18, amended: an agent built by Agent::new and registered after
\* create_session(id) succeeded holds no session and has no consumer task;
\* an agent comes to hold session id only through a create_session(id)
\* call; and while the active session is one a registered agent does not
\* hold, send_message to it from a connected sender fails and enqueues
\* nothing, and send_broadcast leaves it out of its result and its queues
\* alone.
C18_FreshLateAgent ==
    /\ [][\A n \in Names, role \in Roles :
            (AddAgentFresh(n, role) /\ Registers(n)) =>
                /\ DOMAIN objs'[agents'[n]].sessions = {}
                /\ \A t \in DOMAIN tasks' : t[1] # agents'[n]]_vars
    /\ [][\A o \in DOMAIN objs, sid \in SessionIds :
            (~has_session(objs[o], sid) /\ has_session(objs'[o], sid)) =>
                \E order \in CreateOrders :
                    objs' = create_session(sid, order).objs]_vars
    /\ [](\A from, to \in Registered :
            (/\ to \in get_agent(from).connections
             /\ active_session # None
             /\ ~has_session(get_agent(to), active_session)) =>
                /\ LET r == send_message(from, to, "x")
                   IN  /\ r.res \notin {"Ok"}
                       /\ r.objs = objs
                /\ \A order \in BroadcastOrders(from) :
                      LET r == send_broadcast(from, "x", order)
                      IN  /\ r.res = "Ok"
                          /\ \A i \in DOMAIN r.out : r.out[i].to # to
                          /\ r.objs[agents[to]] = objs[agents[to]])

\* An agent added after the session was created: it holds no session, has
\* no task and has received nothing, the session is active, and a sender
\* that holds the session is connected to it.
C18_Witness ==
    \E from, to \in Registered :
        /\ from # to
        /\ to \in get_agent(from).connections
        /\ HoldsActive(from)
        /\ DOMAIN get_agent(to).sessions = {}
        /\ \A t \in DOMAIN tasks : t[1] # agents[to]
        /\ nsent[agents[to]] = 0
        /\ send_message(from, to, "x").res = "SessionNotFound"

\* C19: at every moment there is at most one consumer task that has not
\* stopped for each (agent, session id) pair.
C19_SingleConsumer ==
    \A o \in DOMAIN objs, sid \in SessionIds :
        Cardinality(LiveTasks(o, sid)) <= 1

\* C20: for every (agent, session) pair, the entries of the session log
\* appear in the order in which their messages were enqueued.
C20_LogInEnqueueOrder ==
    \A o \in DOMAIN objs : \A sid \in DOMAIN objs[o].sessions :
        LET log == objs[o].sessions[sid].entries
        IN  \A i, j \in DOMAIN log :
                i < j => log[i].message.id < log[j].message.id

\* C22: a consumer task moves to Stopped only at a poll step in which its
\* session id is absent from its agent's session map; an empty queue, a
\* model call that fails or succeeds, or a change of the active session
\* never stops it.
C22_StopsOnlyWhenSessionGone ==
    [][\A t \in DOMAIN tasks :
          (tasks[t].pc # "Stopped" /\ tasks'[t].pc = "Stopped") =>
              /\ tasks[t].pc = "Polling"
              /\ ~has_session(objs[t[1]], t[2])]_vars

\* One consumer has stopped; another has recorded a reply, has an empty
\* queue and its session, and is polling.
C22_Witness ==
    \E t, u \in DOMAIN tasks :
        /\ tasks[t].pc = "Stopped"
        /\ tasks[u].pc = "Polling"
        /\ has_session(objs[u[1]], u[2])
        /\ objs[u[1]].sessions[u[2]].message_stack = << >>
        /\ objs[u[1]].sessions[u[2]].entries # << >>

\* The session a Processing task popped its message from is no longer in
\* its agent's map (it was removed, and possibly another one was created
\* under the same id since).
SessionGoneSinceDequeue(t) ==
    \/ ~has_session(objs[t[1]], t[2])
    \/ objs[t[1]].sessions[t[2]].join_handle # tasks[t].taken_from

\* C23: if a session is removed after its consumer dequeued a message and
\* before the model call for it completes, the completion of the call
\* records the result in no session log of any agent, whatever registry
\* operations came in between (creating a session with the same id
\* included).
C23_InFlightResultDropped ==
    [][\A t \in DOMAIN tasks :
          (/\ tasks[t].pc = "Processing"
           /\ tasks'[t].pc = "Polling"
           /\ SessionGoneSinceDequeue(t)) => objs' = objs]_vars

(***************************************************************************)
(* Consumption: two agents, one session that is created and never removed, *)
(* send_message, and the consumer tasks.                                   *)
(***************************************************************************)
ConsumeMaxObjs == 2
ConsumeMaxTasks == 2
ConsumeMaxSends == 3
NextConsume ==
    \/ \E n \in SendNames :
          AddAgentFresh(n, "r1") /\ ObjsWithin(ConsumeMaxObjs)'
    \/ \E a, b \in SendNames : ConnectAgents(a, b)
    \/ CreateSession("s1") /\ TasksWithin(ConsumeMaxTasks)'
    \/ \E a, b \in SendNames :
          SendMessage(a, b, "x") /\ SendsWithin(ConsumeMaxSends)'
    \/ Consumers

SpecConsume == Init /\ [][NextConsume]_vars

\* Message m is waiting in some queue, or is in some log, of the table.
Queued(table, m) ==
    \E o \in DOMAIN table : \E sid \in DOMAIN table[o].sessions :
        \E i \in DOMAIN table[o].sessions[sid].message_stack :
            table[o].sessions[sid].message_stack[i] = m

Logged(table, m) ==
    \E o \in DOMAIN table : \E sid \in DOMAIN table[o].sessions :
        \E i \in DOMAIN table[o].sessions[sid].entries :
            table[o].sessions[sid].entries[i].message = m

\* The step in which the model call of task t returns Err: the task leaves
\* Processing, its session is there and gets no entry for the message.
FailedCall(t) ==
    /\ tasks[t].pc = "Processing"
    /\ tasks'[t].pc # "Processing"
    /\ has_session(objs[t[1]], t[2])
    /\ has_session(objs'[t[1]], t[2])
    /\ \A i \in DOMAIN objs'[t[1]].sessions[t[2]].entries :
          objs'[t[1]].sessions[t[2]].entries[i].message # tasks[t].message

\* C24: when the model call for a dequeued message fails, the message is
\* not put back on a queue, no log entry is appended for it, nothing the
\* caller of send_message can see changes, and the task is Polling again;
\* a Polling task whose session has a message queued
\* takes the oldest one at its next poll.
C24_FailedCallDropsMessage ==
    /\ [][\A t \in DOMAIN tasks :
            FailedCall(t) =>
               /\ ~Queued(objs', tasks[t].message)
               /\ ~Logged(objs', tasks[t].message)
               /\ \A o \in DOMAIN objs : \A sid \in DOMAIN objs[o].sessions :
                     /\ sid \in DOMAIN objs'[o].sessions
                     /\ objs'[o].sessions[sid].entries =
                            objs[o].sessions[sid].entries
               /\ UNCHANGED <<agents, held, session_ids, active_session,
                              waiting, nsent>>
               /\ tasks'[t].pc = "Polling"]_vars
    /\ [](\A t \in DOMAIN tasks :
            (/\ tasks[t].pc = "Polling"
             /\ has_session(objs[t[1]], t[2])
             /\ objs[t[1]].sessions[t[2]].message_stack # << >>) =>
                ENABLED (/\ Poll(t)
                         /\ tasks'[t].pc = "Processing"
                         /\ tasks'[t].message =
                              Head(objs[t[1]].sessions[t[2]].message_stack)))

\* Two messages were sent to an agent; the first one's call failed (it is
\* in no queue and no log) and the consumer is processing the second.
C24_Witness ==
    \E t \in DOMAIN tasks :
        /\ tasks[t].pc = "Processing"
        /\ tasks[t].message.id = 2
        /\ has_session(objs[t[1]], t[2])
        /\ objs[t[1]].sessions[t[2]].entries = << >>
        /\ objs[t[1]].sessions[t[2]].message_stack = << >>

\* The places where the i-th message enqueued to Agent value o is now:
\* positions of the queues of o, positions of the logs of o, the tasks of o
\* that have it in hand.
WhereIs(o, i) ==
    LET ss == objs[o].sessions
    IN  {p \in {<<"queue", sid>> : sid \in DOMAIN ss} \X (1..nsent[o]) :
            /\ p[2] \in DOMAIN ss[p[1][2]].message_stack
            /\ ss[p[1][2]].message_stack[p[2]].id = i}
        \cup
        {p \in {<<"log", sid>> : sid \in DOMAIN ss} \X (1..nsent[o]) :
            /\ p[2] \in DOMAIN ss[p[1][2]].entries
            /\ ss[p[1][2]].entries[p[2]].message.id = i}
        \cup
        {t \in DOMAIN tasks :
            /\ t[1] = o
            /\ tasks[t].pc = "Processing"
            /\ tasks[t].message.id = i}

\* C25: under any interleaving of consumer tasks and registry operations a
\* message enqueued by a successful send is dequeued at most once and gets
\* at most one log entry (it is in at most one place: a queue, a task's
\* hand or a log); every log entry carries a response; and while a session
\* stays in its agent's map its log only grows at the end.
C25_AtMostOnce ==
    /\ [](\A o \in DOMAIN objs : \A i \in 1..nsent[o] :
            Cardinality(WhereIs(o, i)) <= 1)
    /\ [](\A o \in DOMAIN objs : \A sid \in DOMAIN objs[o].sessions :
            \A k \in DOMAIN objs[o].sessions[sid].entries :
                objs[o].sessions[sid].entries[k].response = Response)
    /\ [][\A o \in DOMAIN objs : \A sid \in DOMAIN objs[o].sessions :
            (/\ has_session(objs'[o], sid)
             /\ objs'[o].sessions[sid].join_handle =
                    objs[o].sessions[sid].join_handle) =>
                LET old == objs[o].sessions[sid].entries
                    new == objs'[o].sessions[sid].entries
                IN  /\ Len(old) <= Len(new)
                    /\ SubSeq(new, 1, Len(old)) = old]_vars

\* A log holds two entries while the consumer has a third message in hand.
C25_Witness ==
    \E t \in DOMAIN tasks :
        /\ tasks[t].pc = "Processing"
        /\ has_session(objs[t[1]], t[2])
        /\ Len(objs[t[1]].sessions[t[2]].entries) = 2

\* C28: with add_agent given Agent values that are fresh or were returned
\* by remove_agent, the connection relation among registered agents is
\* symmetric in every reachable state.
C28_ConnectionsSymmetric ==
    \A a, b \in Registered :
        Connected(objs, agents, a, b) => Connected(objs, agents, b, a)

\* C30: create_session(id) is all-or-nothing: whenever it returns an error
\* no agent has gained a session, no consumer task has been spawned, and
\* the session id set and the active session are unchanged.
C30_CreateSessionAllOrNothing ==
    \A sid \in SessionIds : \A order \in CreateOrders :
        LET r == create_session(sid, order)
        IN  r.res # "Ok" =>
              /\ r.objs = objs
              /\ r.tasks = tasks
              /\ r.session_ids = session_ids
              /\ r.active_session = active_session

(***************************************************************************)
(* Removed agents: two agents that are added, connected and removed, one   *)
(* session id that is created, removed and waited for, send_message, and   *)
(* the consumer tasks.                                                     *)
(***************************************************************************)
OrphanMaxObjs == 2
OrphanMaxTasks == 3
OrphanMaxSends == 2
NextOrphan ==
    \/ \E n \in SendNames :
          AddAgentFresh(n, "r1") /\ ObjsWithin(OrphanMaxObjs)'
    \/ \E n \in SendNames : RemoveAgent(n)
    \/ \E a, b \in SendNames : ConnectAgents(a, b)
    \/ CreateSession("s1") /\ TasksWithin(OrphanMaxTasks)'
    \/ RemoveSession("s1")
    \/ Waits({"s1"})
    \/ \E a, b \in SendNames :
          SendMessage(a, b, "x") /\ SendsWithin(OrphanMaxSends)'
    \/ Consumers

SpecOrphan == Init /\ [][NextOrphan]_vars

\* C29: remove_agent leaves the removed agent's sessions, queues and
\* consumer tasks as they are; the consumers of an agent that is not
\* registered keep running while it holds their session; and
\* remove_session(id) and wait_for_session_tasks(id) neither remove such an
\* agent's session nor collect its task handle.
C29_RemovedAgentKeepsSessions ==
    /\ [][\A n \in DOMAIN agents :
            n \notin DOMAIN agents' =>
               /\ objs'[agents[n]].sessions = objs[agents[n]].sessions
               /\ tasks' = tasks]_vars
    /\ [][\A t \in DOMAIN tasks :
            (/\ ~IsRegisteredObj(t[1])
             /\ has_session(objs[t[1]], t[2])
             /\ tasks[t].pc # "Stopped") =>
                /\ has_session(objs'[t[1]], t[2])
                /\ tasks'[t].pc # "Stopped"]_vars
    /\ [](\A o \in DOMAIN objs : \A sid \in SessionIds :
            ~IsRegisteredObj(o) =>
               /\ remove_session(sid).objs[o] = objs[o]
               /\ wait_for_session_tasks(sid).objs[o] = objs[o]
               /\ \A t \in wait_for_session_tasks(sid).waiting : t[1] # o)

\* An agent was removed with a message in its queue; the session has since
\* been removed from the system and the remaining agent's consumer has
\* stopped, while the removed agent still holds the session and its
\* consumer has the message in hand.
C29_Witness ==
    \E t, u \in DOMAIN tasks :
        /\ ~IsRegisteredObj(t[1])
        /\ IsRegisteredObj(u[1])
        /\ t[2] = u[2]
        /\ t[2] \notin session_ids
        /\ tasks[u].pc = "Stopped"
        /\ has_session(objs[t[1]], t[2])
        /\ tasks[t].pc = "Processing"
        /\ objs[t[1]].sessions[t[2]].message_stack # << >>

(***************************************************************************)
(* Delivery: the operations of SpecConsume under fair scheduling.  The     *)
(* runtime runs every spawned task again after its sleep (a poll that      *)
(* finds a message is eventually taken), and every model call returns.     *)
(***************************************************************************)
DeliverTasks == {<<<<n, 1>>, "s1", 1>> : n \in SendNames}

FairConsumers(T) ==
    \A t \in T : /\ WF_vars(Poll(t))
                 /\ WF_vars(CallOk(t) \/ CallErr(t))

SpecDeliver == Init /\ [][NextConsume]_vars /\ FairConsumers(DeliverTasks)

\* The i-th message enqueued to Agent value o waits in its queue of sid.
InQueue(o, sid, i) ==
    /\ o \in DOMAIN objs
    /\ has_session(objs[o], sid)
    /\ \E k \in DOMAIN objs[o].sessions[sid].message_stack :
          objs[o].sessions[sid].message_stack[k].id = i

\* A consumer of (o, sid) has the i-th message enqueued to o in hand.
InHand(o, sid, i) ==
    \E t \in DOMAIN tasks :
        /\ t[1] = o
        /\ t[2] = sid
        /\ tasks[t].pc = "Processing"
        /\ tasks[t].message.id = i

\* C26: provided the session is never removed, scheduling is fair and
\* every model call returns, every message enqueued for an (agent, session)
\* pair is eventually dequeued by that pair's consumer.
C26_EventuallyDequeued ==
    \A n \in SendNames : \A i \in 1..ConsumeMaxSends :
        InQueue(<<n, 1>>, "s1", i) ~> InHand(<<n, 1>>, "s1", i)

\* The consumer has the first message in hand while two later ones wait.
C26_Witness ==
    \E n \in SendNames :
        /\ InHand(<<n, 1>>, "s1", 1)
        /\ InQueue(<<n, 1>>, "s1", 2)
        /\ InQueue(<<n, 1>>, "s1", 3)

(***************************************************************************)
(* Termination: two agents, one session id that is created, removed and    *)
(* created again, one message, and the consumer tasks under the fair       *)
(* scheduling of SpecDeliver.  No agent is removed, so a task whose       *)
(* session id is not in the system's set was spawned before a              *)
(* remove_session of that id.                                              *)
(***************************************************************************)
StopMaxObjs == 2
StopMaxTasks == 4
StopMaxSends == 1
NextStop ==
    \/ \E n \in SendNames : AddAgentFresh(n, "r1") /\ ObjsWithin(StopMaxObjs)'
    \/ \E a, b \in SendNames : ConnectAgents(a, b)
    \/ CreateSession("s1") /\ TasksWithin(StopMaxTasks)'
    \/ RemoveSession("s1")
    \/ \E a, b \in SendNames :
          SendMessage(a, b, "x") /\ SendsWithin(StopMaxSends)'
    \/ Consumers

StopTasks == {<<<<n, 1>>, "s1", k>> : n \in SendNames, k \in 1..StopMaxTasks}

SpecStop == Init /\ [][NextStop]_vars /\ FairConsumers(StopTasks)

\* C21: under fair scheduling and with every model call returning, every
\* consumer task that was spawned for a session id reaches Stopped after
\* remove_session of that id, whatever registry operations follow.
C21_RemovedSessionTasksStop ==
    \A t \in StopTasks :
        (t \in DOMAIN tasks /\ t[2] \notin session_ids)
            ~> (t \in DOMAIN tasks /\ tasks[t].pc = "Stopped")

(***************************************************************************)
(* Locks: two agents, one session id that is created, removed and created  *)
(* again, send_message, and the consumer tasks taken lock by lock.  The    *)
(* runtime runs every task that can take a step, and every model call      *)
(* returns.                                                                *)
(***************************************************************************)
LocksMaxObjs == 2
LocksMaxTasks == 3
LocksMaxSends == 2
ConsumerSteps(t) ==
    \/ LockForPoll(t)
    \/ PollLocked(t)
    \/ CallReturnsOk(t)
    \/ CallErr(t)
    \/ LockForRecord(t)
    \/ RecordLocked(t)

NextLocks ==
    \/ \E n \in SendNames :
          AddAgentFresh(n, "r1") /\ ObjsWithin(LocksMaxObjs)'
    \/ \E a, b \in SendNames : ConnectAgents(a, b)
    \/ SessionMapsFree /\ CreateSession("s1") /\ TasksWithin(LocksMaxTasks)'
    \/ SessionMapsFree /\ RemoveSession("s1")
    \/ \E a, b \in SendNames :
          SessionMapsFree /\ SendMessage(a, b, "x")
              /\ SendsWithin(LocksMaxSends)'
    \/ \E t \in DOMAIN tasks : ConsumerSteps(t)

LocksTasks ==
    {<<<<n, 1>>, "s1", k>> : n \in SendNames, k \in 1..LocksMaxTasks}

SpecLocks ==
    Init /\ [][NextLocks]_vars /\ \A t \in LocksTasks : WF_vars(ConsumerSteps(t))

====
